---- MODULE Spec2Model ----
(***************************************************************************)
(* The task assistant of the team-collaboration backend:                   *)
(* src/src/controllers/assistantController.js (handleAssistant and the     *)
(* TaskAssistant resolvers), over a task collection, a fixed set of users  *)
(* and projects, and the socket.io channel the application may hold.       *)
(***************************************************************************)
EXTENDS Integers, Sequences, FiniteSets, TLC

VARIABLES
    tasks,     \* the Task collection: task id -> stored document
    nextId,    \* number of ids handed out so far (ids are never reused)
    io,        \* req.app.get('io'): "absent", "attached" or "failing"
    req,       \* the last assistant request: caller, projectId, parsed intent, fault
    resp,      \* what the last request answered
    events,    \* what the last request published on the channel
    arg,       \* a TaskAssistant method called on its own: its arguments
    ret,       \* and what it returned
    calls      \* the assistant requests in flight, when they overlap

vars == <<tasks, nextId, io, req, resp, events, arg, ret, calls>>

----------------------------------------------------------------------------
(* Bounds *)

MaxTasks == 1
MaxCalls == 2            \* requests in flight at once

----------------------------------------------------------------------------
(* Values *)

Unset == <<>>            \* a text field that carries no value (null)
NoId == 0                \* no task id
NoUser == "nobody"       \* assignedTo: null
NoProject == "noproject" \* projectId absent from the request body
NoStatus == "nostatus"   \* no status parsed
NoTeam == "noteam"       \* teamId undefined (a projected document)
NoCall == <<>>           \* no method called on its own, nothing returned
Idle == [pc |-> "idle"]  \* no request in flight in a slot
NoCalls == [k \in 1..MaxCalls |-> Idle]

ROLE_ADMIN == "admin"
ROLE_MANAGER == "manager"
ROLE_MEMBER == "member"

TODO == "todo"
IN_PROGRESS == "in-progress"
DONE == "done"

(* The User collection, in its natural (insertion) order. *)
UserOrder == <<"out", "adm", "mgr", "mem1", "mem2">>

User ==
    [u \in {"out", "adm", "mgr", "mem1", "mem2"} |->
        CASE u = "out"  -> [role |-> ROLE_MEMBER,  teamId |-> "T2",
                            name |-> <<"S", "o">>, email |-> <<"o", "@">>]
          [] u = "adm"  -> [role |-> ROLE_ADMIN,   teamId |-> "T1",
                            name |-> <<"A", "l">>, email |-> <<"a", "@">>]
          [] u = "mgr"  -> [role |-> ROLE_MANAGER, teamId |-> "T1",
                            name |-> <<"B", "o">>, email |-> <<"b", "@">>]
          [] u = "mem1" -> [role |-> ROLE_MEMBER,  teamId |-> "T1",
                            name |-> <<"S", "a">>, email |-> <<"m", "@">>]
          [] u = "mem2" -> [role |-> ROLE_MEMBER,  teamId |-> "T1",
                            name |-> <<"L", "o">>, email |-> <<"K", "@">>]]

(* The Project collection: P1 belongs to team T1, P2 to team T2. *)
Project ==
    [p \in {"P1", "P2"} |->
        IF p = "P1" THEN [name |-> "one", teamId |-> "T1"]
                    ELSE [name |-> "two", teamId |-> "T2"]]

----------------------------------------------------------------------------
(* Text *)

Lower(c) ==
    CASE c = "A" -> "a" [] c = "B" -> "b" [] c = "F" -> "f" [] c = "J" -> "j"
      [] c = "K" -> "k" [] c = "L" -> "l" [] c = "S" -> "s" [] c = "X" -> "x"
      [] OTHER -> c

ToLowerCase(s) == [i \in 1..Len(s) |-> Lower(s[i])]

Includes(s, sub) ==
    \E i \in 0..(Len(s) - Len(sub)) : SubSeq(s, i + 1, i + Len(sub)) = sub

----------------------------------------------------------------------------
(* Persistence: the mongoose queries the handler makes *)

IdSeq == [i \in 1..MaxTasks |-> i]

(* Task.find({ projectId }): the project's tasks in insertion order. *)
TaskFind(store, pid) ==
    SelectSeq(IdSeq, LAMBDA i : i \in DOMAIN store /\ store[i].projectId = pid)

(* Task.findById(id): the id when a document has it, else null. *)
TaskFindById(store, id) == IF id \in DOMAIN store THEN id ELSE NoId

(* .populate('projectId', 'name'): the project document projected on _id and  *)
(* name; null (the empty record) when the project does not exist.             *)
PopulatedProject(pid) ==
    IF pid \in DOMAIN Project
    THEN [_id |-> pid, name |-> Project[pid].name]
    ELSE <<>>

(* doc.teamId of a document or of a projection of one: undefined when the     *)
(* field was not selected or the document is null.                            *)
TeamIdOf(doc) == IF "teamId" \in DOMAIN doc THEN doc.teamId ELSE NoTeam

(* Project.findById(id) followed by project.teamId, undefined without project. *)
ProjectTeam(pid) == IF pid \in DOMAIN Project THEN Project[pid].teamId ELSE NoTeam

(* User.find({ role: MEMBER, teamId: this.user.teamId }) *)
AssigneePoolAnyTeam(caller) ==
    SelectSeq(UserOrder, LAMBDA u : User[u].role = ROLE_MEMBER)

AssigneePool(caller) ==
    SelectSeq(UserOrder, LAMBDA u : User[u].role = ROLE_MEMBER
                                     /\ User[u].teamId = User[caller].teamId)

----------------------------------------------------------------------------
(* TaskAssistant: the resolvers *)

(* findTaskByTitle(title, tasks): first task of the list whose title contains *)
(* the fragment or is contained in it, both lower-cased.                      *)
findTaskByTitleOneWay(store, title, list) ==
    IF title = Unset THEN NoId
    ELSE LET lowerTitle == ToLowerCase(title)
             found == SelectSeq(list, LAMBDA i :
                        Includes(ToLowerCase(store[i].title), lowerTitle))
         IN  IF found = <<>> THEN NoId ELSE Head(found)

findTaskByTitle(store, title, list) ==
    IF title = Unset THEN NoId
    ELSE LET lowerTitle == ToLowerCase(title)
             found == SelectSeq(list, LAMBDA i :
                        \/ Includes(ToLowerCase(store[i].title), lowerTitle)
                        \/ Includes(lowerTitle, ToLowerCase(store[i].title)))
         IN  IF found = <<>> THEN NoId ELSE Head(found)

(* findUserByName(name): first member of the caller's team whose name contains *)
(* the fragment, is contained in it, or whose email contains it.               *)
findUserByName(caller, name) ==
    IF name = Unset THEN NoUser
    ELSE LET users == AssigneePool(caller)
             lowerName == ToLowerCase(name)
             found == SelectSeq(users, LAMBDA u :
                        \/ Includes(ToLowerCase(User[u].name), lowerName)
                        \/ Includes(lowerName, ToLowerCase(User[u].name))
                        \/ Includes(ToLowerCase(User[u].email), lowerName))
         IN  IF found = <<>> THEN NoUser ELSE Head(found)

----------------------------------------------------------------------------
(* handleAssistant: what a request answers and leaves behind *)

Role(u) == User[u].role

Resp(status, message, task, hasTasks, list) ==
    [status |-> status, message |-> message, task |-> task,
     hasTasks |-> hasTasks, tasks |-> list]

Out(store, nid, r, ev) == [tasks |-> store, nextId |-> nid, resp |-> r, events |-> ev]

(* next(error): the error handler answers with the error's class and message. *)
Fail(store, nid, status, message) ==
    Out(store, nid, Resp(status, message, NoId, FALSE, <<>>), <<>>)

(* successResponse(res, 200, message, { message, task, tasks }) *)
Ok(store, nid, message, task, ev) ==
    Out(store, nid, Resp("OK", message, task, FALSE, <<>>), ev)

(* A rejected promise of the persistence layer, propagated unchanged. *)
Broken(store, nid) == Fail(store, nid, "Error", "connectivity error")

(* The task list read for context, narrowed for a member to the tasks        *)
(* assigned to the caller.                                                   *)
SnapshotUnscoped(store, caller, pid) ==
    LET found == IF pid = NoProject
                 THEN SelectSeq(IdSeq, LAMBDA i : i \in DOMAIN store)
                 ELSE TaskFind(store, pid)
    IN  IF Role(caller) = ROLE_MEMBER
        THEN SelectSeq(found, LAMBDA i : store[i].assignedTo # NoUser
                                         /\ store[i].assignedTo = caller)
        ELSE found

Snapshot(store, caller, pid) ==
    IF pid = NoProject THEN <<>>
    ELSE LET found == TaskFind(store, pid)
         IN  IF Role(caller) = ROLE_MEMBER
             THEN SelectSeq(found, LAMBDA i : store[i].assignedTo # NoUser
                                              /\ store[i].assignedTo = caller)
             ELSE found

(* The task a command refers to: by id when one was parsed, else by title    *)
(* among the context list, else none.                                        *)
Lookup(store, parsed, list) ==
    IF parsed.taskId # NoId THEN TaskFindById(store, parsed.taskId)
    ELSE IF parsed.taskTitle # Unset
         THEN findTaskByTitle(store, parsed.taskTitle, list)
         ELSE NoId

(* io.to(`team:${teamId}`).emit(event, payload), made only with a channel and *)
(* a team id; a channel that throws fails the request after the write.        *)
Publish(store, nid, ok, team, event, id, ioMode) ==
    IF ioMode = "absent" \/ team = NoTeam THEN ok
    ELSE IF ioMode = "failing" THEN Fail(store, nid, "Error", "emit failed")
    ELSE [ok EXCEPT !.events = <<[topic |-> team, event |-> event, taskId |-> id]>>]

(* The role gates. *)
CreateAllowedAnyone(role) == TRUE

CreateAllowed(role) == role # ROLE_MEMBER

AssignAllowedAdminToo(role) == role # ROLE_MEMBER

AssignAllowed(role) == role = ROLE_MANAGER

DeleteAllowedManagerToo(role) == role # ROLE_MEMBER

DeleteAllowed(role) == role = ROLE_ADMIN

(* assignedToId === user.id.toString(), null for an unassigned task *)
OwnsTaskOrUnassigned(doc, caller) == doc.assignedTo \in {caller, NoUser}

OwnsTask(doc, caller) == doc.assignedTo = caller

(* Create looks the assignee up only for a manager. *)
HonorsAssigneeAnyRole(role, parsed) == parsed.assigneeName # Unset

HonorsAssignee(role, parsed) == parsed.assigneeName # Unset /\ role = ROLE_MANAGER

(* The fields an update writes to the document before saving it. *)
MemberUpdateAllFields(doc, parsed) ==
    [doc EXCEPT !.title = IF parsed.title # Unset THEN parsed.title ELSE @,
                !.description = IF parsed.description # Unset
                                THEN parsed.description ELSE @,
                !.status = IF parsed.status # NoStatus THEN parsed.status ELSE @]

MemberUpdate(doc, parsed) ==
    [doc EXCEPT !.status = IF parsed.status # NoStatus THEN parsed.status ELSE @]

ManagerUpdate(doc, parsed) ==
    [doc EXCEPT !.title = IF parsed.title # Unset THEN parsed.title ELSE @,
                !.description = IF parsed.description # Unset
                                THEN parsed.description ELSE @,
                !.status = IF parsed.status # NoStatus THEN parsed.status ELSE @]

(* case 'create' *)
caseCreate(store, nid, caller, pid, parsed, ioMode, fault) ==
    IF ~CreateAllowed(Role(caller))
    THEN Fail(store, nid, "Forbidden", "Members cannot create tasks")
    ELSE IF pid = NoProject
    THEN Fail(store, nid, "BadRequest", "Project ID is required to create a task")
    ELSE IF fault = "lookup" THEN Broken(store, nid)
    ELSE IF pid \notin DOMAIN Project
    THEN Fail(store, nid, "NotFound", "Project not found")
    ELSE LET wanted == HonorsAssignee(Role(caller), parsed)
             assignee == IF wanted THEN findUserByName(caller, parsed.assigneeName)
                                   ELSE NoUser
             id == nid + 1
             doc == [title |-> parsed.title,
                     description |-> parsed.description,
                     status |-> IF parsed.status # NoStatus THEN parsed.status ELSE TODO,
                     projectId |-> pid,
                     assignedTo |-> assignee]
             store2 == store @@ (id :> doc)
             ok == Ok(store2, id,
                      IF wanted /\ assignee = NoUser
                      THEN "Warning: Could not find user. Task created successfully!"
                      ELSE "Task created successfully!", id, <<>>)
         IN  IF fault = "write" THEN Broken(store, nid)
             ELSE IF fault = "refetch" THEN Broken(store2, id)
             ELSE Publish(store2, id, ok, ProjectTeam(pid), "task-updated", id, ioMode)

(* case 'update' *)
caseUpdate(store, nid, caller, pid, parsed, ioMode, fault) ==
    LET id == Lookup(store, parsed, Snapshot(store, caller, pid))
    IN  IF parsed.taskId # NoId /\ fault = "lookup" THEN Broken(store, nid)
        ELSE IF id = NoId THEN Fail(store, nid, "NotFound", "Task not found")
        ELSE IF Role(caller) = ROLE_MEMBER /\ ~OwnsTask(store[id], caller)
        THEN Fail(store, nid, "Forbidden", "You can only update tasks assigned to you")
        ELSE LET doc == IF Role(caller) = ROLE_MEMBER
                        THEN MemberUpdate(store[id], parsed)
                        ELSE ManagerUpdate(store[id], parsed)
                 store2 == [store EXCEPT ![id] = doc]
                 ok == Ok(store2, nid, "Task updated successfully!", id, <<>>)
             IN  IF fault = "write" THEN Broken(store, nid)
                 ELSE IF fault = "refetch" THEN Broken(store2, nid)
                 ELSE Publish(store2, nid, ok,
                              TeamIdOf(PopulatedProject(doc.projectId)),
                              "task-updated", id, ioMode)

(* case 'move' *)
caseMove(store, nid, caller, pid, parsed, ioMode, fault) ==
    LET id == Lookup(store, parsed, Snapshot(store, caller, pid))
    IN  IF parsed.taskId # NoId /\ fault = "lookup" THEN Broken(store, nid)
        ELSE IF id = NoId THEN Fail(store, nid, "NotFound", "Task not found")
        ELSE IF parsed.status = NoStatus
        THEN Fail(store, nid, "BadRequest",
                  "Please specify the status to move the task to")
        ELSE IF Role(caller) = ROLE_MEMBER /\ ~OwnsTask(store[id], caller)
        THEN Fail(store, nid, "Forbidden", "You can only update tasks assigned to you")
        ELSE LET doc == [store[id] EXCEPT !.status = parsed.status]
                 store2 == [store EXCEPT ![id] = doc]
                 ok == Ok(store2, nid, "Task moved successfully!", id, <<>>)
             IN  IF fault = "write" THEN Broken(store, nid)
                 ELSE IF fault = "refetch" THEN Broken(store2, nid)
                 ELSE Publish(store2, nid, ok,
                              TeamIdOf(PopulatedProject(doc.projectId)),
                              "task-updated", id, ioMode)

(* case 'assign' *)
caseAssign(store, nid, caller, pid, parsed, ioMode, fault) ==
    IF ~AssignAllowed(Role(caller))
    THEN Fail(store, nid, "Forbidden", "Only Managers can assign tasks to members")
    ELSE
    LET id == Lookup(store, parsed, Snapshot(store, caller, pid))
        assignee == findUserByName(caller, parsed.assigneeName)
    IN  IF parsed.taskId # NoId /\ fault = "lookup" THEN Broken(store, nid)
        ELSE IF id = NoId THEN Fail(store, nid, "NotFound", "Task not found")
        ELSE IF parsed.assigneeName = Unset
        THEN Fail(store, nid, "BadRequest", "Please specify who to assign the task to")
        ELSE IF fault = "lookup" THEN Broken(store, nid)
        ELSE IF assignee = NoUser THEN Fail(store, nid, "NotFound", "User not found")
        ELSE IF Role(assignee) # ROLE_MEMBER
        THEN Fail(store, nid, "Forbidden", "Tasks can only be assigned to members")
        ELSE LET doc == [store[id] EXCEPT !.assignedTo = assignee]
                 store2 == [store EXCEPT ![id] = doc]
                 ok == Ok(store2, nid, "Task assigned successfully!", id, <<>>)
             IN  IF fault = "write" THEN Broken(store, nid)
                 ELSE IF fault = "refetch" THEN Broken(store2, nid)
                 ELSE Publish(store2, nid, ok,
                              TeamIdOf(PopulatedProject(doc.projectId)),
                              "task-updated", id, ioMode)

(* case 'delete' *)
caseDelete(store, nid, caller, pid, parsed, ioMode, fault) ==
    IF ~DeleteAllowed(Role(caller))
    THEN Fail(store, nid, "Forbidden", "Only Admins can delete tasks")
    ELSE
    LET id == Lookup(store, parsed, Snapshot(store, caller, pid))
    IN  IF parsed.taskId # NoId /\ fault = "lookup" THEN Broken(store, nid)
        ELSE IF id = NoId THEN Fail(store, nid, "NotFound", "Task not found")
        ELSE LET store2 == [i \in DOMAIN store \ {id} |-> store[i]]
                 ok == Ok(store2, nid, "Task deleted successfully!", NoId, <<>>)
                 \* taskToDelete.projectId: the raw id of a document found by id,
                 \* the populated project (or null) of one found in the list
                 hasProject == \/ parsed.taskId # NoId
                               \/ store[id].projectId \in DOMAIN Project
             IN  IF fault = "write" THEN Broken(store, nid)
                 ELSE IF ioMode = "absent" \/ ~hasProject THEN ok
                 ELSE IF fault = "refetch" THEN Broken(store2, nid)
                 ELSE Publish(store2, nid, ok, ProjectTeam(store[id].projectId),
                              "task-deleted", id, ioMode)

(* case 'list' *)
caseList(store, nid, caller, pid, parsed) ==
    LET list == Snapshot(store, caller, pid)
        mine == IF parsed.filters.assignedToMe
                THEN SelectSeq(list, LAMBDA i : store[i].assignedTo # NoUser
                                                /\ store[i].assignedTo = caller)
                ELSE list
        filteredTasks ==
                IF parsed.filters.status # NoStatus
                THEN SelectSeq(mine, LAMBDA i : store[i].status = parsed.filters.status)
                ELSE mine
    IN  Out(store, nid,
            Resp("OK", IF Len(filteredTasks) = 0
                       THEN "No tasks found matching your criteria."
                       ELSE "Found task(s):", NoId, TRUE, filteredTasks), <<>>)

(* case 'help', case 'unknown', and default (the parser's error variant) *)
caseHelpListing(store, nid) ==
    Out(store, nid,
        Resp("OK", "I can help you manage tasks!", NoId, TRUE, <<>>), <<>>)

caseHelp(store, nid) == Ok(store, nid, "I can help you manage tasks!", NoId, <<>>)

caseUnknown(store, nid) == Ok(store, nid, "I didn't understand that command.", NoId, <<>>)

caseDefault(store, nid) == Ok(store, nid, "Unknown command.", NoId, <<>>)

(* handleAssistant(req, res, next): the empty-command check and the read of  *)
(* the context list, then the case of the parsed intent, whose outcome is    *)
(* switched.                                                                 *)
handleAssistant(store, nid, rq, switched) ==
    IF rq.empty THEN Fail(store, nid, "BadRequest", "Command is required")
    ELSE IF rq.projectId # NoProject /\ rq.fault = "snapshot" THEN Broken(store, nid)
    ELSE switched

----------------------------------------------------------------------------
(* Requests *)

Callers == {"adm", "mgr", "mem1"}

(* projectId of the body: absent, a project of each team, one that does not exist *)
ProjectIds == {NoProject, "P1", "P2", "PX"}

TitleA == <<"f">>
TitleB == <<"f", "x">>
DescD == <<"d">>

(* Assignee name fragments: "s" is in the names Sa and So, "k" only in the email *)
(* of Lo, "bo" is the manager's name.                                            *)
Hints == {Unset, <<"s">>, <<"k">>, <<"b", "o">>}

(* How a command refers to a task: by id, by a title fragment, or not at all. *)
Refs ==
    {[taskId |-> i, taskTitle |-> Unset] : i \in 1..MaxTasks}
        \cup {[taskId |-> NoId, taskTitle |-> TitleA],
              [taskId |-> NoId, taskTitle |-> Unset]}

NoFilters == [assignedToMe |-> FALSE, status |-> NoStatus]

Parsed(intent, ref, title, description, status, assigneeName, filters) ==
    [intent |-> intent, taskId |-> ref.taskId, taskTitle |-> ref.taskTitle,
     title |-> title, description |-> description, status |-> status,
     assigneeName |-> assigneeName, filters |-> filters]

NoRef == [taskId |-> NoId, taskTitle |-> Unset]

(* What parseCommand hands to the handler, per intent. *)
CreateIntents ==
    {Parsed("create", NoRef, TitleA, Unset, TODO, h, NoFilters) : h \in Hints}

UpdateIntents ==
    {Parsed("update", r, f[1], f[2], st, Unset, NoFilters) :
        r \in Refs, f \in {<<Unset, Unset>>, <<TitleB, DescD>>}, st \in {NoStatus, DONE}}

MoveIntents ==
    {Parsed("move", r, Unset, Unset, st, Unset, NoFilters) :
        r \in Refs, st \in {NoStatus, DONE}}

AssignIntents ==
    {Parsed("assign", r, Unset, Unset, NoStatus, h, NoFilters) : r \in Refs, h \in Hints}

DeleteIntents ==
    {Parsed("delete", r, Unset, Unset, NoStatus, Unset, NoFilters) : r \in Refs}

ListIntents ==
    {Parsed("list", NoRef, Unset, Unset, NoStatus, Unset,
            [assignedToMe |-> m, status |-> st]) :
        m \in BOOLEAN, st \in {NoStatus, TODO}}

Plain(intent) == Parsed(intent, NoRef, Unset, Unset, NoStatus, Unset, NoFilters)

NoRequest ==
    [user |-> "nobody", projectId |-> NoProject, parsed |-> Plain("none"),
     fault |-> "none", empty |-> TRUE]

NoResponse == Resp("none", "", NoId, FALSE, <<>>)

----------------------------------------------------------------------------
(* Regular expressions: String.prototype.match without the g flag, as the   *)
(* backtracking matcher computes it. A pattern is a tree of literals,       *)
(* alternations, sequences, optional parts, repetitions of one character    *)
(* class (greedy or lazy), one capture group and the end anchor; Match      *)
(* lists the ways the pattern matches at a position in the order the        *)
(* matcher tries them, so that the first is the one it returns.             *)

Lit(w) == [t |-> "lit", w |-> w]
Alt(rs) == [t |-> "alt", rs |-> rs]
Cat(rs) == [t |-> "seq", rs |-> rs]
Opt(r) == [t |-> "opt", r |-> r]
Rep(cls, min, max, lazy) == [t |-> "rep", cls |-> cls, min |-> min, max |-> max, lazy |-> lazy]
Cap(r) == [t |-> "cap", r |-> r]
End == [t |-> "end"]

Many == 99               \* no upper limit on a repetition

InClass(c, cls) ==
    LET Alpha ==
        {"a", "b", "c", "d", "e", "f", "g", "h", "i", "j", "k", "l", "m",
         "n", "o", "p", "q", "r", "s", "t", "u", "v", "w", "x", "y", "z"}
        HexDigit ==
        {"a", "b", "c", "d", "e", "f", "0", "1", "2", "3", "4", "5", "6", "7", "8", "9"}
    IN
    CASE cls = "space"      -> c = " "                  \* \s
      [] cls = "any"        -> TRUE                     \* .
      [] cls = "notquote"   -> c \notin {"\"", "'"}     \* [^"']
      [] cls = "quote"      -> c \in {"\"", "'"}        \* ["']
      [] cls = "alphaspace" -> c \in Alpha \cup {" "}   \* [a-z\s]
      [] cls = "hex"        -> c \in HexDigit           \* [a-f0-9]

Spaces == Rep("space", 1, Many, FALSE)          \* \s+
MaybeSpaces == Rep("space", 0, Many, FALSE)     \* \s*
MaybeQuote == Rep("quote", 0, 1, FALSE)         \* ["']?
Words(ws) == Alt([k \in 1..Len(ws) |-> Lit(ws[k])])

(* The one element of a set {f(x) : x \in {e}}: f(e), with e computed once. *)
Once(S) == CHOOSE x \in S : TRUE

(* The number of characters of the class that follow position i, at most max: *)
(* the first count at which the run stops.                                    *)
Run(s, i, cls, max) ==
    Once({CHOOSE n \in stops : \A m \in stops : n <= m :
            stops \in {{n \in 0..(Len(s) - i + 1) :
                          \/ n = max
                          \/ i + n > Len(s)
                          \/ ~InClass(s[i + n], cls)}}})

RECURSIVE Flat(_)
Flat(ss) ==
    IF ss = <<>> THEN <<>>
    ELSE IF Len(ss) = 1 THEN ss[1]
    ELSE Flat(SubSeq(ss, 1, Len(ss) \div 2))
            \o Flat(SubSeq(ss, (Len(ss) \div 2) + 1, Len(ss)))

RECURSIVE Match(_, _, _, _)
RECURSIVE MatchCat(_, _, _, _)

Match(r, s, i, c) ==
    CASE r.t = "lit" ->
            IF i + Len(r.w) - 1 <= Len(s) /\ SubSeq(s, i, i + Len(r.w) - 1) = r.w
            THEN <<[e |-> i + Len(r.w), c |-> c]>> ELSE <<>>
      [] r.t = "end" ->
            IF i = Len(s) + 1 THEN <<[e |-> i, c |-> c]>> ELSE <<>>
      [] r.t = "rep" ->
            Once({IF k < r.min THEN <<>>
                  ELSE [j \in 1..(k - r.min + 1) |->
                          [e |-> i + (IF r.lazy THEN r.min + j - 1 ELSE k - j + 1),
                           c |-> c]] : k \in {Run(s, i, r.cls, r.max)}})
      [] r.t = "opt" -> Match(r.r, s, i, c) \o <<[e |-> i, c |-> c]>>
      [] r.t = "alt" -> Flat([k \in 1..Len(r.rs) |-> Match(r.rs[k], s, i, c)])
      [] r.t = "cap" ->
            Once({[k \in 1..Len(ms) |-> [e |-> ms[k].e, c |-> <<i, ms[k].e>>]] :
                    ms \in {Match(r.r, s, i, c)}})
      [] r.t = "seq" -> MatchCat(r.rs, 1, s, <<[e |-> i, c |-> c]>>)

MatchCat(rs, k, s, ms) ==
    IF k > Len(rs) \/ ms = <<>> THEN ms
    ELSE Once({MatchCat(rs, k + 1, s, next) :
                 next \in {Flat([m \in 1..Len(ms) |->
                                   Match(rs[k], s, ms[m].e, ms[m].c)])}})

(* str.match(r): the leftmost match, its start and its capture group. *)
Leftmost(r, s, starts) ==
    IF starts = {} THEN [found |-> FALSE, start |-> 0, group |-> <<>>]
    ELSE Once({[found |-> TRUE, start |-> i,
                group |-> IF m.c = <<>> THEN <<>> ELSE SubSeq(s, m.c[1], m.c[2] - 1)] :
                 i \in {a \in starts : \A b \in starts : a <= b},
                 m \in {Head(Match(r, s, CHOOSE a \in starts : \A b \in starts : a <= b,
                                   <<>>))}})

Exec(r, s) ==
    Once({Leftmost(r, s, starts) :
            starts \in {{i \in 1..(Len(s) + 1) : Match(r, s, i, <<>>) # <<>>}}})

RECURSIVE TrimStart(_)
TrimStart(s) == IF s # <<>> /\ Head(s) = " " THEN TrimStart(Tail(s)) ELSE s

RECURSIVE TrimEnd(_)
TrimEnd(s) == IF s # <<>> /\ s[Len(s)] = " " THEN TrimEnd(SubSeq(s, 1, Len(s) - 1)) ELSE s

Trim(s) == TrimEnd(TrimStart(s))

(* m ? m[1].trim() : null *)
Group(r, s) == Once({IF m.found THEN Trim(m.group) ELSE Unset : m \in {Exec(r, s)}})

----------------------------------------------------------------------------
(* TaskAssistant: the parser *)

(* The status words the patterns capture, after toLowerCase() and           *)
(* replace(/\s+/, '-'): "in progress" becomes "in-progress", the others     *)
(* stay, "completed" included.                                              *)
StatusWords == <<<<"t", "o", "d", "o">>, <<"i", "n", "-", "p", "r", "o", "g", "r", "e", "s", "s">>, <<"i", "n", " ", "p", "r", "o", "g", "r", "e", "s", "s">>, <<"d", "o", "n", "e">>, <<"c", "o", "m", "p", "l", "e", "t", "e", "d">>>>

COMPLETED == "completed"

Dashed(word) ==
    CASE word = <<"t", "o", "d", "o">>        -> TODO
      [] word = <<"i", "n", "-", "p", "r", "o", "g", "r", "e", "s", "s">> -> IN_PROGRESS
      [] word = <<"i", "n", " ", "p", "r", "o", "g", "r", "e", "s", "s">> -> IN_PROGRESS
      [] word = <<"d", "o", "n", "e">>        -> DONE
      [] word = <<"c", "o", "m", "p", "l", "e", "t", "e", "d">>   -> COMPLETED
      [] OTHER -> NoStatus

(* if (status === 'in progress') ...; if (status === 'completed') status = DONE *)
Normalize(status) == IF status = COMPLETED THEN DONE ELSE status

(* A task id in a command is the 24 hexadecimal digits of an ObjectId. *)
IdLength == 24

IdDigits == <<"1", "2", "3", "4", "5", "6", "7", "8", "9">>

ObjectId(i) == [k \in 1..IdLength |-> IF k = IdLength THEN IdDigits[i] ELSE "0"]

TaskIdOf(text) ==
    IF text = Unset THEN NoId
    ELSE IF \A i \in 1..Len(IdDigits) : ObjectId(i) # text THEN Len(IdDigits) + 1
    ELSE CHOOSE i \in 1..Len(IdDigits) : ObjectId(i) = text

TaskIdPattern ==
    Cat(<<Opt(Cat(<<Lit(<<"t", "a", "s", "k">>), Spaces>>)),
          Opt(Alt(<<Lit(<<"#">>), Cat(<<Lit(<<"i", "d">>), Spaces>>)>>)),
          Cap(Rep("hex", IdLength, IdLength, FALSE))>>)

StatusLabelPattern ==
    Cat(<<Words(<<<<"s", "t", "a", "t", "u", "s">>, <<"s", "t", "a", "t", "e">>>>), Lit(<<":">>), MaybeSpaces,
          Cap(Words(StatusWords))>>)

DescriptionLabel ==
    Alt(<<Lit(<<"d", "e", "s", "c", "r", "i", "p", "t", "i", "o", "n">>), Lit(<<"d", "e", "s", "c">>), Cat(<<Lit(<<"d", "e", "t", "a", "i", "l">>), Opt(Lit(<<"s">>))>>)>>)

matchesPattern(text, patterns) == \E p \in patterns : Includes(text, p)

(* parseCreateTask *)
CreateVerbs == <<<<"c", "r", "e", "a", "t", "e">>, <<"a", "d", "d">>, <<"n", "e", "w">>, <<"m", "a", "k", "e">>>>

(* title.replace(/\s+(?:in\s+project|with\s+description|assigned\s+to).*$/i, '').trim() *)
CleanTitle(title) ==
    LET TitleTailPattern ==
        Cat(<<Spaces,
              Alt(<<Cat(<<Lit(<<"i", "n">>), Spaces, Lit(<<"p", "r", "o", "j", "e", "c", "t">>)>>),
                    Cat(<<Lit(<<"w", "i", "t", "h">>), Spaces, Lit(<<"d", "e", "s", "c", "r", "i", "p", "t", "i", "o", "n">>)>>),
                    Cat(<<Lit(<<"a", "s", "s", "i", "g", "n", "e", "d">>), Spaces, Lit(<<"t", "o">>)>>)>>),
              Rep("any", 0, Many, FALSE), End>>)
    IN
    Once({Trim(IF m.found THEN SubSeq(title, 1, m.start - 1) ELSE title) :
            m \in {Exec(TitleTailPattern, title)}})

(* The title of the first pattern, else of the alternative one. *)
CreateTitle(command) ==
    LET CreateTitlePattern ==
        Cat(<<Words(CreateVerbs), Spaces, Opt(Cat(<<Lit(<<"a">>), Spaces>>)),
              Lit(<<"t", "a", "s", "k">>), Spaces, Opt(Words(<<<<"t", "o">>, <<"f", "o", "r">>, <<"a", "b", "o", "u", "t">>>>)), MaybeSpaces,
              Cap(Rep("any", 1, Many, TRUE)),
              Alt(<<Cat(<<Spaces, Lit(<<"i", "n">>), Spaces, Lit(<<"p", "r", "o", "j", "e", "c", "t">>)>>),
                    Cat(<<Spaces, Lit(<<"w", "i", "t", "h">>), Spaces, Lit(<<"d", "e", "s", "c", "r", "i", "p", "t", "i", "o", "n">>)>>),
                    Cat(<<Spaces, Lit(<<"a", "s", "s", "i", "g", "n", "e", "d">>), Spaces, Lit(<<"t", "o">>)>>),
                    End>>)>>)
        CreateAltPattern ==
        Cat(<<Words(CreateVerbs), Spaces, Opt(Cat(<<Lit(<<"a">>), Spaces>>)),
              Lit(<<"t", "a", "s", "k">>), Spaces, Opt(Words(<<<<"c", "a", "l", "l", "e", "d">>, <<"n", "a", "m", "e", "d">>, <<"t", "i", "t", "l", "e", "d">>>>)),
              MaybeSpaces, MaybeQuote, Cap(Rep("notquote", 1, Many, FALSE)), MaybeQuote>>)
    IN
    Once({IF first # Unset THEN first ELSE Group(CreateAltPattern, command) :
            first \in {Group(CreateTitlePattern, command)}})

parseCreateTask(command) ==
    LET CreateDescriptionPattern ==
        Cat(<<DescriptionLabel, Lit(<<":">>), MaybeSpaces, Cap(Rep("any", 1, Many, TRUE)),
              Alt(<<Cat(<<Spaces, Lit(<<"a", "s", "s", "i", "g", "n", "e", "d">>), Spaces, Lit(<<"t", "o">>)>>),
                    Cat(<<Spaces, Lit(<<"s", "t", "a", "t", "u", "s">>)>>),
                    End>>)>>)
        CreateAssigneePattern ==
        Cat(<<Words(<<<<"a", "s", "s", "i", "g", "n">>, <<"a", "s", "s", "i", "g", "n", "e", "d">>, <<"t", "o">>>>), Spaces,
              Opt(Cat(<<Lit(<<"t", "o">>), Spaces>>)),
              Cap(Rep("alphaspace", 1, Many, TRUE)),
              Alt(<<Cat(<<Spaces, Lit(<<"w", "i", "t", "h">>), Spaces, Lit(<<"s", "t", "a", "t", "u", "s">>)>>),
                    Cat(<<Spaces, Lit(<<"s", "t", "a", "t", "u", "s">>)>>),
                    End>>)>>)
    IN
    Once({IF title = Unset THEN Plain("error")
          ELSE Parsed("create", NoRef, CleanTitle(title),
                      Group(CreateDescriptionPattern, command),
                      IF statusMatch.found THEN Normalize(Dashed(statusMatch.group))
                                           ELSE TODO,
                      Group(CreateAssigneePattern, command), NoFilters) :
            title \in {CreateTitle(command)},
            statusMatch \in {Exec(StatusLabelPattern, command)}})

(* parseUpdateTask *)
(* /(?:a|b|c)\s+["']?([^"']+)["']?/ *)
TitleAfter(ws) ==
    Cat(<<Words(ws), Spaces, MaybeQuote, Cap(Rep("notquote", 1, Many, FALSE)),
          MaybeQuote>>)

parseUpdateTask(command) ==
    LET UpdateTitlePattern ==
        Cat(<<Words(<<<<"t", "i", "t", "l", "e">>, <<"n", "a", "m", "e">>>>), Lit(<<":">>), MaybeSpaces, MaybeQuote,
              Cap(Rep("notquote", 1, Many, FALSE)), MaybeQuote>>)
        UpdateDescriptionPattern ==
        Cat(<<DescriptionLabel, Lit(<<":">>), MaybeSpaces, Cap(Rep("any", 1, Many, TRUE)),
              Alt(<<Cat(<<Spaces, Lit(<<"s", "t", "a", "t", "u", "s">>)>>), End>>)>>)
    IN
    Once({Parsed("update",
                 [taskId |-> taskId,
                  taskTitle |-> IF taskId = NoId
                                THEN Group(TitleAfter(<<<<"t", "a", "s", "k">>, <<"u", "p", "d", "a", "t", "e">>, <<"c", "h", "a", "n", "g", "e">>>>),
                                           command)
                                ELSE Unset],
                 Group(UpdateTitlePattern, command),
                 Group(UpdateDescriptionPattern, command),
                 IF statusMatch.found THEN Dashed(statusMatch.group) ELSE NoStatus,
                 Unset, NoFilters) :
            taskId \in {TaskIdOf(Group(TaskIdPattern, command))},
            statusMatch \in {Exec(StatusLabelPattern, command)}})

(* parseMoveTask *)
(* The status a command mentions anywhere, in the order the code asks. *)
MentionedStatus(command) ==
    IF Includes(command, <<"t", "o", "d", "o">>) \/ Includes(command, <<"t", "o", " ", "d", "o">>) THEN TODO
    ELSE IF Includes(command, <<"i", "n", " ", "p", "r", "o", "g", "r", "e", "s", "s">>) \/ Includes(command, <<"i", "n", "-", "p", "r", "o", "g", "r", "e", "s", "s">>)
    THEN IN_PROGRESS
    ELSE IF Includes(command, <<"d", "o", "n", "e">>) \/ Includes(command, <<"c", "o", "m", "p", "l", "e", "t", "e", "d">>) THEN DONE
    ELSE NoStatus

parseMoveTask(command) ==
    LET MoveStatusPattern ==
        Cat(<<Words(<<<<"t", "o">>, <<"a", "s">>, <<"s", "t", "a", "t", "u", "s">>, <<"s", "t", "a", "t", "e">>>>), Spaces, Cap(Words(StatusWords))>>)
    IN
    Once({Parsed("move",
                 [taskId |-> taskId,
                  taskTitle |-> IF taskId = NoId
                                THEN Group(TitleAfter(<<<<"t", "a", "s", "k">>, <<"m", "o", "v", "e">>, <<"c", "h", "a", "n", "g", "e">>>>),
                                           command)
                                ELSE Unset],
                 Unset, Unset,
                 Normalize(IF statusMatch.found THEN Dashed(statusMatch.group)
                                                ELSE MentionedStatus(command)),
                 Unset, NoFilters) :
            taskId \in {TaskIdOf(Group(TaskIdPattern, command))},
            statusMatch \in {Exec(MoveStatusPattern, command)}})

(* parseAssignTask *)
parseAssignTask(command) ==
    LET AssignAssigneePattern ==
        Cat(<<Words(<<<<"t", "o">>, <<"a", "s", "s", "i", "g", "n">>, <<"g", "i", "v", "e">>, <<"a", "l", "l", "o", "c", "a", "t", "e">>>>), Spaces,
              Opt(Cat(<<Lit(<<"t", "o">>), Spaces>>)),
              Cap(Rep("alphaspace", 1, Many, TRUE)),
              Alt(<<Cat(<<Spaces, Lit(<<"w", "i", "t", "h">>)>>), End>>)>>)
        AssignTitlePattern ==
        Cat(<<Words(<<<<"t", "a", "s", "k">>, <<"a", "s", "s", "i", "g", "n">>>>), Spaces, MaybeQuote,
              Cap(Rep("notquote", 1, Many, FALSE)), MaybeQuote, Spaces, Lit(<<"t", "o">>)>>)
    IN
    Once({Parsed("assign",
                 [taskId |-> taskId,
                  taskTitle |-> IF taskId = NoId THEN Group(AssignTitlePattern, command)
                                                 ELSE Unset],
                 Unset, Unset, NoStatus, Group(AssignAssigneePattern, command),
                 NoFilters) :
            taskId \in {TaskIdOf(Group(TaskIdPattern, command))}})

(* parseDeleteTask *)
parseDeleteTask(command) ==
    Once({Parsed("delete",
                 [taskId |-> taskId,
                  taskTitle |-> IF taskId = NoId
                                THEN Group(TitleAfter(<<<<"t", "a", "s", "k">>, <<"d", "e", "l", "e", "t", "e">>, <<"r", "e", "m", "o", "v", "e">>>>),
                                           command)
                                ELSE Unset],
                 Unset, Unset, NoStatus, Unset, NoFilters) :
            taskId \in {TaskIdOf(Group(TaskIdPattern, command))}})

(* parseListTasks *)
parseListTasks(command) ==
    Parsed("list", NoRef, Unset, Unset, NoStatus, Unset,
           [assignedToMe |-> Includes(command, <<"a", "s", "s", "i", "g", "n", "e", "d", " ", "t", "o", " ", "m", "e">>)
                             \/ Includes(command, <<"m", "y", " ", "t", "a", "s", "k", "s">>),
            status |-> MentionedStatus(command)])

(* parseCommand: the keyword pairs, asked in this order. *)
CreateActions == {<<"c", "r", "e", "a", "t", "e">>, <<"a", "d", "d">>, <<"n", "e", "w">>, <<"m", "a", "k", "e">>}
UpdateActions == {<<"u", "p", "d", "a", "t", "e">>, <<"c", "h", "a", "n", "g", "e">>, <<"m", "o", "d", "i", "f", "y">>, <<"e", "d", "i", "t">>, <<"s", "e", "t">>}
MoveActions == {<<"m", "o", "v", "e">>, <<"c", "h", "a", "n", "g", "e">>, <<"s", "e", "t">>}
MoveObjects == {<<"s", "t", "a", "t", "u", "s">>, <<"t", "o">>, <<"p", "r", "o", "g", "r", "e", "s", "s">>, <<"d", "o", "n", "e">>, <<"t", "o", "d", "o">>}
AssignActions == {<<"a", "s", "s", "i", "g", "n">>, <<"g", "i", "v", "e">>, <<"a", "l", "l", "o", "c", "a", "t", "e">>}
AssignObjects == {<<"t", "a", "s", "k">>, <<"t", "o">>}
DeleteActions == {<<"d", "e", "l", "e", "t", "e">>, <<"r", "e", "m", "o", "v", "e">>, <<"c", "a", "n", "c", "e", "l">>}
ListActions == {<<"s", "h", "o", "w">>, <<"l", "i", "s", "t">>, <<"g", "e", "t">>, <<"d", "i", "s", "p", "l", "a", "y">>, <<"w", "h", "a", "t">>, <<"w", "h", "i", "c", "h">>}
ListObjects == {<<"t", "a", "s", "k">>, <<"t", "a", "s", "k", "s">>}
HelpActions == {<<"h", "e", "l", "p">>, <<"w", "h", "a", "t", " ", "c", "a", "n">>, <<"h", "o", "w">>, <<"c", "o", "m", "m", "a", "n", "d", "s">>}
TaskObject == {<<"t", "a", "s", "k">>}

parseCommandMoveFirst(command) ==
    Once({LET has(patterns) == matchesPattern(lowerCommand, patterns)
          IN  IF has(CreateActions) /\ has(TaskObject) THEN parseCreateTask(lowerCommand)
              ELSE IF has(MoveActions) /\ has(MoveObjects) THEN parseMoveTask(lowerCommand)
              ELSE IF has(UpdateActions) /\ has(TaskObject) THEN parseUpdateTask(lowerCommand)
              ELSE IF has(AssignActions) /\ has(AssignObjects) THEN parseAssignTask(lowerCommand)
              ELSE IF has(DeleteActions) /\ has(TaskObject) THEN parseDeleteTask(lowerCommand)
              ELSE IF has(ListActions) /\ has(ListObjects) THEN parseListTasks(lowerCommand)
              ELSE IF has(HelpActions) THEN Plain("help")
              ELSE Plain("unknown") :
            lowerCommand \in {Trim(ToLowerCase(command))}})

parseCommand(command) ==
    Once({LET has(patterns) == matchesPattern(lowerCommand, patterns)
          IN  IF has(CreateActions) /\ has(TaskObject) THEN parseCreateTask(lowerCommand)
              ELSE IF has(UpdateActions) /\ has(TaskObject) THEN parseUpdateTask(lowerCommand)
              ELSE IF has(MoveActions) /\ has(MoveObjects) THEN parseMoveTask(lowerCommand)
              ELSE IF has(AssignActions) /\ has(AssignObjects) THEN parseAssignTask(lowerCommand)
              ELSE IF has(DeleteActions) /\ has(TaskObject) THEN parseDeleteTask(lowerCommand)
              ELSE IF has(ListActions) /\ has(ListObjects) THEN parseListTasks(lowerCommand)
              ELSE IF has(HelpActions) THEN Plain("help")
              ELSE Plain("unknown") :
            lowerCommand \in {Trim(ToLowerCase(command))}})

----------------------------------------------------------------------------
(* The state machine *)

Init ==
    /\ tasks = <<>>
    /\ calls = NoCalls
    /\ nextId = 0
    /\ io = "attached"
    /\ req = NoRequest
    /\ resp = NoResponse
    /\ events = <<>>
    /\ arg = NoCall
    /\ ret = NoCall

(* POST /api/tasks/assistant: a request is handled from its arrival to its  *)
(* response, one action per intent the command parses to.                    *)
Command(u, p, parsed, f) ==
    [user |-> u, projectId |-> p, parsed |-> parsed, fault |-> f, empty |-> FALSE]

Create(F) ==
    \E u \in Callers, p \in ProjectIds, i \in CreateIntents, f \in F :
        LET rq == Command(u, p, i, f)
            o == handleAssistant(tasks, nextId, rq,
                                 caseCreate(tasks, nextId, u, p, i, io, f))
        IN  /\ req = NoRequest
            /\ o.nextId <= MaxTasks
            /\ nextId' = o.nextId
            /\ tasks' = o.tasks
            /\ resp' = o.resp
            /\ events' = o.events
            /\ req' = rq
            /\ UNCHANGED <<io, arg, ret, calls>>

Update(F) ==
    \E u \in Callers, p \in ProjectIds, i \in UpdateIntents, f \in F :
        LET rq == Command(u, p, i, f)
            o == handleAssistant(tasks, nextId, rq,
                                 caseUpdate(tasks, nextId, u, p, i, io, f))
        IN  /\ req = NoRequest
            /\ tasks' = o.tasks
            /\ resp' = o.resp
            /\ events' = o.events
            /\ req' = rq
            /\ UNCHANGED <<nextId, io, arg, ret, calls>>

Move(F) ==
    \E u \in Callers, p \in ProjectIds, i \in MoveIntents, f \in F :
        LET rq == Command(u, p, i, f)
            o == handleAssistant(tasks, nextId, rq,
                                 caseMove(tasks, nextId, u, p, i, io, f))
        IN  /\ req = NoRequest
            /\ tasks' = o.tasks
            /\ resp' = o.resp
            /\ events' = o.events
            /\ req' = rq
            /\ UNCHANGED <<nextId, io, arg, ret, calls>>

Assign(F) ==
    \E u \in Callers, p \in ProjectIds, i \in AssignIntents, f \in F :
        LET rq == Command(u, p, i, f)
            o == handleAssistant(tasks, nextId, rq,
                                 caseAssign(tasks, nextId, u, p, i, io, f))
        IN  /\ req = NoRequest
            /\ tasks' = o.tasks
            /\ resp' = o.resp
            /\ events' = o.events
            /\ req' = rq
            /\ UNCHANGED <<nextId, io, arg, ret, calls>>

Delete(F) ==
    \E u \in Callers, p \in ProjectIds, i \in DeleteIntents, f \in F :
        LET rq == Command(u, p, i, f)
            o == handleAssistant(tasks, nextId, rq,
                                 caseDelete(tasks, nextId, u, p, i, io, f))
        IN  /\ req = NoRequest
            /\ tasks' = o.tasks
            /\ resp' = o.resp
            /\ events' = o.events
            /\ req' = rq
            /\ UNCHANGED <<nextId, io, arg, ret, calls>>

List(F) ==
    \E u \in Callers, p \in ProjectIds, i \in ListIntents, f \in F :
        LET rq == Command(u, p, i, f)
            o == handleAssistant(tasks, nextId, rq,
                                 caseList(tasks, nextId, u, p, i))
        IN  /\ req = NoRequest
            /\ tasks' = o.tasks
            /\ resp' = o.resp
            /\ events' = o.events
            /\ req' = rq
            /\ UNCHANGED <<nextId, io, arg, ret, calls>>

Help ==
    \E u \in Callers, p \in ProjectIds :
        LET rq == Command(u, p, Plain("help"), "none")
            o == handleAssistant(tasks, nextId, rq,
                                 caseHelp(tasks, nextId))
        IN  /\ req = NoRequest
            /\ tasks' = o.tasks
            /\ resp' = o.resp
            /\ events' = o.events
            /\ req' = rq
            /\ UNCHANGED <<nextId, io, arg, ret, calls>>

Unknown ==
    \E u \in Callers, p \in ProjectIds :
        LET rq == Command(u, p, Plain("unknown"), "none")
            o == handleAssistant(tasks, nextId, rq,
                                 caseUnknown(tasks, nextId))
        IN  /\ req = NoRequest
            /\ tasks' = o.tasks
            /\ resp' = o.resp
            /\ events' = o.events
            /\ req' = rq
            /\ UNCHANGED <<nextId, io, arg, ret, calls>>

ParseError ==
    \E u \in Callers, p \in ProjectIds :
        LET rq == Command(u, p, Plain("error"), "none")
            o == handleAssistant(tasks, nextId, rq,
                                 caseDefault(tasks, nextId))
        IN  /\ req = NoRequest
            /\ tasks' = o.tasks
            /\ resp' = o.resp
            /\ events' = o.events
            /\ req' = rq
            /\ UNCHANGED <<nextId, io, arg, ret, calls>>

EmptyCommand ==
    \E u \in Callers, p \in ProjectIds :
        LET rq == [Command(u, p, Plain("none"), "none") EXCEPT !.empty = TRUE]
            o == handleAssistant(tasks, nextId, rq,
                                 caseDefault(tasks, nextId))
        IN  /\ req = NoRequest
            /\ tasks' = o.tasks
            /\ resp' = o.resp
            /\ events' = o.events
            /\ req' = rq
            /\ UNCHANGED <<nextId, io, arg, ret, calls>>

(* The response is sent; the request and what was built for it are dropped. *)
Respond ==
    /\ req # NoRequest
    /\ req' = NoRequest
    /\ resp' = NoResponse
    /\ events' = <<>>
    /\ UNCHANGED <<tasks, nextId, io, arg, ret, calls>>

NoFault == {"none"}

Next ==
    \/ Create(NoFault)
    \/ Update(NoFault)
    \/ Move(NoFault)
    \/ Assign(NoFault)
    \/ Delete(NoFault)
    \/ List(NoFault)
    \/ Help
    \/ Unknown
    \/ ParseError
    \/ EmptyCommand
    \/ Respond

Spec == Init /\ [][Next]_vars

(* The same requests when a call to the persistence layer may reject: the    *)
(* list read for context ("snapshot"), a read made before the write          *)
(* ("lookup"), the write itself ("write"), a read made after it ("refetch"). *)
Faults == {"none", "snapshot", "lookup", "write", "refetch"}

NextFault ==
    \/ Create(Faults)
    \/ Update(Faults)
    \/ Move(Faults)
    \/ Assign(Faults)
    \/ Delete(Faults)
    \/ List(Faults)
    \/ Help
    \/ Unknown
    \/ ParseError
    \/ EmptyCommand
    \/ Respond

SpecFault == Init /\ [][NextFault]_vars

----------------------------------------------------------------------------
(* The assistant driven by the text of the command: POST /api/tasks/assistant *)
(* with body { command, projectId }, next to POST /api/tasks, the route      *)
(* through which tasks with titles of any case come to exist.                *)

CreateLoginBug == <<"c", "r", "e", "a", "t", "e", " ", "a", " ", "t", "a", "s", "k", " ", "t", "o", " ", "f", "i", "x", " ", "t", "h", "e", " ", "l", "o", "g", "i", "n", " ", "b", "u", "g">>
MoveFixLogin == <<"m", "o", "v", "e", " ", "t", "a", "s", "k", " ", "'", "F", "i", "x", " ", "l", "o", "g", "i", "n", "'", " ", "t", "o", " ", "d", "o", "n", "e">>
HelpCommand == <<"h", "e", "l", "p">>
CreateNoTitle == <<"c", "r", "e", "a", "t", "e", " ", "t", "a", "s", "k">>
UpdateCompleted == <<"u", "p", "d", "a", "t", "e", " ", "t", "a", "s", "k", " ", "'", "f", "i", "x", " ", "l", "o", "g", "i", "n", "'", " ", "s", "t", "a", "t", "u", "s", ":", " ", "c", "o", "m", "p", "l", "e", "t", "e", "d">>

Utterances ==
    {CreateLoginBug, MoveFixLogin,
     <<"m", "o", "v", "e", " ", "f", "i", "x", " ", "l", "o", "g", "i", "n", " ", "t", "o", " ", "d", "o", "n", "e">>,
     HelpCommand, CreateNoTitle,
     UpdateCompleted,
     <<"s", "h", "o", "w", " ", "t", "a", "s", "k", "s">>,
     <<"d", "e", "l", "e", "t", "e", " ", "t", "a", "s", "k", " ", "0", "0", "0", "0", "0", "0", "0", "0", "0", "0", "0", "0", "0", "0", "0", "0", "0", "0", "0", "0", "0", "0", "0", "1">>,
     <<"a", "s", "s", "i", "g", "n", " ", "t", "a", "s", "k", " ", "0", "0", "0", "0", "0", "0", "0", "0", "0", "0", "0", "0", "0", "0", "0", "0", "0", "0", "0", "0", "0", "0", "0", "1", " ", "t", "o", " ", "s", "a">>,
     <<"h", "e", "l", "l", "o">>,
     <<" ", " ">>}

ParseTable == [c \in Utterances |-> parseCommand(c)]

(* switch (parsed.intent) *)
switchIntent(store, nid, caller, pid, parsed, ioMode, fault) ==
    CASE parsed.intent = "create"  -> caseCreate(store, nid, caller, pid, parsed, ioMode, fault)
      [] parsed.intent = "update"  -> caseUpdate(store, nid, caller, pid, parsed, ioMode, fault)
      [] parsed.intent = "move"    -> caseMove(store, nid, caller, pid, parsed, ioMode, fault)
      [] parsed.intent = "assign"  -> caseAssign(store, nid, caller, pid, parsed, ioMode, fault)
      [] parsed.intent = "delete"  -> caseDelete(store, nid, caller, pid, parsed, ioMode, fault)
      [] parsed.intent = "list"    -> caseList(store, nid, caller, pid, parsed)
      [] parsed.intent = "help"    -> caseHelp(store, nid)
      [] parsed.intent = "unknown" -> caseUnknown(store, nid)
      [] OTHER                     -> caseDefault(store, nid)

Say ==
    LET Spoken(u, p, c) ==
        [user |-> u, projectId |-> p, parsed |-> ParseTable[c], fault |-> "none",
         empty |-> Trim(c) = <<>>, command |-> c]
    IN
    /\ req = NoRequest
    /\ \E c \in Utterances, u \in Callers, p \in ProjectIds :
        LET rq == Spoken(u, p, c)
            o == handleAssistant(tasks, nextId, rq,
                                 switchIntent(tasks, nextId, u, p, rq.parsed, io, "none"))
        IN  /\ o.nextId <= MaxTasks
            /\ nextId' = o.nextId
            /\ tasks' = o.tasks
            /\ resp' = o.resp
            /\ events' = o.events
            /\ req' = rq
            /\ UNCHANGED <<io, arg, ret, calls>>

(* createTask of the task routes: the project must exist and be of the       *)
(* caller's team, only a manager may name an assignee, and the assignee must *)
(* be of the project's team.                                                 *)
FixLogin == <<"F", "i", "x", " ", "l", "o", "g", "i", "n">>

createTask ==
    LET SeedTitles == {FixLogin, <<"T", "a", "s", "k">>}
    IN
    /\ req = NoRequest
    /\ nextId < MaxTasks
    /\ \E u \in Callers, title \in SeedTitles, pid \in DOMAIN Project,
          assignedTo \in {NoUser, "mem1", "mem2", "out"} :
        /\ User[u].teamId = Project[pid].teamId
        /\ assignedTo # NoUser => Role(u) = ROLE_MANAGER
        /\ assignedTo # NoUser => User[assignedTo].teamId = Project[pid].teamId
        /\ nextId' = nextId + 1
        /\ tasks' = tasks @@ (nextId + 1 :>
                        [title |-> title, description |-> Unset, status |-> TODO,
                         projectId |-> pid, assignedTo |-> assignedTo])
        /\ UNCHANGED <<io, req, resp, events, arg, ret, calls>>

NextText ==
    \/ createTask
    \/ Say
    \/ Respond

SpecText == Init /\ [][NextText]_vars

(* The requests of Spec under each state of the channel: none attached, one  *)
(* that delivers, one whose emit throws.                                     *)
InitChannel ==
    LET IoModes == {"absent", "attached", "failing"}
    IN
    /\ tasks = <<>>
    /\ calls = NoCalls
    /\ nextId = 0
    /\ io \in IoModes
    /\ req = NoRequest
    /\ resp = NoResponse
    /\ events = <<>>
    /\ arg = NoCall
    /\ ret = NoCall

SpecChannel == InitChannel /\ [][Next]_vars

----------------------------------------------------------------------------
(* Requests that overlap. handleAssistant is an async function: at each      *)
(* await another request may run. A request reads (the context list and the  *)
(* task it names, the project and the assignee), then writes (Task.create,   *)
(* save or findByIdAndDelete), then reads the task again for its response.   *)
(* Reads of the projects and users, which no request changes, are taken      *)
(* with the step before them.                                                *)

RaceIntents ==
    LET byId == {r \in Refs : r.taskId # NoId}
        byTitle == {r \in Refs : r.taskTitle # Unset}
    IN  {Parsed("create", NoRef, TitleA, Unset, TODO, <<"s">>, NoFilters)}
        \cup {Parsed("update", r, Unset, Unset, IN_PROGRESS, Unset, NoFilters) : r \in byTitle}
        \cup {Parsed("move", r, Unset, Unset, DONE, Unset, NoFilters) : r \in byId \cup byTitle}
        \cup {Parsed("assign", r, Unset, Unset, NoStatus, <<"k">>, NoFilters) : r \in byId}
        \cup {Parsed("delete", r, Unset, Unset, NoStatus, Unset, NoFilters) : r \in byTitle}

(* throw new ...Error(message): the request is answered without a write. *)
Stopped(status, message) ==
    [pc |-> "done", resp |-> Resp(status, message, NoId, FALSE, <<>>)]

(* The handler holds a document: seen is what it read, doc what it has set   *)
(* on it (or will create), id the task (none yet for a Create).              *)
Holding(id, seen, doc, message) ==
    [pc |-> "write", id |-> id, seen |-> seen, doc |-> doc, message |-> message]

(* case 'create' up to Task.create *)
readCreate(store, rq) ==
    IF ~CreateAllowed(Role(rq.user))
    THEN Stopped("Forbidden", "Members cannot create tasks")
    ELSE IF rq.projectId = NoProject
    THEN Stopped("BadRequest", "Project ID is required to create a task")
    ELSE IF rq.projectId \notin DOMAIN Project
    THEN Stopped("NotFound", "Project not found")
    ELSE LET wanted == HonorsAssignee(Role(rq.user), rq.parsed)
             assignee == IF wanted THEN findUserByName(rq.user, rq.parsed.assigneeName)
                                   ELSE NoUser
             doc == [title |-> rq.parsed.title,
                     description |-> rq.parsed.description,
                     status |-> IF rq.parsed.status # NoStatus THEN rq.parsed.status
                                                               ELSE TODO,
                     projectId |-> rq.projectId,
                     assignedTo |-> assignee]
         IN  Holding(NoId, doc, doc,
                     IF wanted /\ assignee = NoUser
                     THEN "Warning: Could not find user. Task created successfully!"
                     ELSE "Task created successfully!")

(* case 'update', 'move', 'assign', 'delete' up to save / findByIdAndDelete *)
readChange(store, rq) ==
    LET intent == rq.parsed.intent
        id == Lookup(store, rq.parsed, Snapshot(store, rq.user, rq.projectId))
        assignee == findUserByName(rq.user, rq.parsed.assigneeName)
    IN  IF intent = "assign" /\ ~AssignAllowed(Role(rq.user))
        THEN Stopped("Forbidden", "Only Managers can assign tasks to members")
        ELSE IF intent = "delete" /\ ~DeleteAllowed(Role(rq.user))
        THEN Stopped("Forbidden", "Only Admins can delete tasks")
        ELSE IF id = NoId THEN Stopped("NotFound", "Task not found")
        ELSE IF intent = "move" /\ rq.parsed.status = NoStatus
        THEN Stopped("BadRequest", "Please specify the status to move the task to")
        ELSE IF /\ intent \in {"update", "move"}
                /\ Role(rq.user) = ROLE_MEMBER
                /\ ~OwnsTask(store[id], rq.user)
        THEN Stopped("Forbidden", "You can only update tasks assigned to you")
        ELSE IF intent = "assign" /\ rq.parsed.assigneeName = Unset
        THEN Stopped("BadRequest", "Please specify who to assign the task to")
        ELSE IF intent = "assign" /\ assignee = NoUser
        THEN Stopped("NotFound", "User not found")
        ELSE IF intent = "assign" /\ Role(assignee) # ROLE_MEMBER
        THEN Stopped("Forbidden", "Tasks can only be assigned to members")
        ELSE CASE intent = "update" ->
                    Holding(id, store[id],
                            IF Role(rq.user) = ROLE_MEMBER
                            THEN MemberUpdate(store[id], rq.parsed)
                            ELSE ManagerUpdate(store[id], rq.parsed),
                            "Task updated successfully!")
               [] intent = "move" ->
                    Holding(id, store[id], [store[id] EXCEPT !.status = rq.parsed.status],
                            "Task moved successfully!")
               [] intent = "assign" ->
                    Holding(id, store[id], [store[id] EXCEPT !.assignedTo = assignee],
                            "Task assigned successfully!")
               [] intent = "delete" ->
                    Holding(id, store[id], store[id], "Task deleted successfully!")

(* doc.save(): the paths the handler gave a new value are written to the    *)
(* stored document, the others are left as stored.                          *)
SaveWhole(store, id, seen, doc) == [store EXCEPT ![id] = doc]

Save(store, id, seen, doc) ==
    [store EXCEPT ![id] = [f \in DOMAIN doc |-> IF doc[f] # seen[f] THEN doc[f]
                                                                     ELSE @[f]]]

(* The request is read and checked: it is answered at once when a check     *)
(* fails, else it holds its document until its write.                       *)
Begin ==
    \E u \in Callers, i \in RaceIntents, k \in 1..MaxCalls :
        LET rq == Command(u, "P1", i, "none")
            d == IF i.intent = "create" THEN readCreate(tasks, rq)
                                        ELSE readChange(tasks, rq)
            creating == {j \in 1..MaxCalls : /\ calls[j].pc = "write"
                                             /\ calls[j].rq.parsed.intent = "create"}
        IN  /\ calls[k] = Idle
            /\ \A j \in 1..(k - 1) : calls[j] # Idle
            /\ i.intent = "create" => nextId + Cardinality(creating) < MaxTasks
            /\ IF d.pc = "done"
               THEN /\ req' = rq
                    /\ resp' = d.resp
                    /\ events' = <<>>
                    /\ calls' = calls
               ELSE /\ calls' = [calls EXCEPT ![k] =
                                    [pc |-> d.pc, rq |-> rq, id |-> d.id, seen |-> d.seen,
                                     doc |-> d.doc, message |-> d.message]]
                    /\ UNCHANGED <<req, resp, events>>
            /\ UNCHANGED <<tasks, nextId, io, arg, ret>>

(* Task.create, save or findByIdAndDelete. A Delete is answered after it    *)
(* (the project it reads for the event does not change); a save of a        *)
(* document that is no longer stored writes nothing and the request fails.  *)
Write ==
    \E k \in 1..MaxCalls :
        /\ calls[k].pc = "write"
        /\ LET c == calls[k]
               intent == c.rq.parsed.intent
               removed == [i \in DOMAIN tasks \ {c.id} |-> tasks[i]]
               out == IF intent = "delete"
                      THEN Publish(removed, nextId,
                                   Ok(removed, nextId, c.message, NoId, <<>>),
                                   ProjectTeam(c.seen.projectId), "task-deleted", c.id, io)
                      ELSE Fail(tasks, nextId, "Error", "document not found")
           IN  CASE intent = "create" ->
                      /\ nextId' = nextId + 1
                      /\ tasks' = tasks @@ (nextId + 1 :> c.doc)
                      /\ calls' = [calls EXCEPT ![k] = [c EXCEPT !.pc = "refetch",
                                                                 !.id = nextId + 1]]
                      /\ UNCHANGED <<req, resp, events>>
                 [] intent # "create" /\ (intent = "delete" \/ c.id \notin DOMAIN tasks) ->
                      /\ tasks' = out.tasks
                      /\ req' = c.rq
                      /\ resp' = out.resp
                      /\ events' = out.events
                      /\ calls' = [calls EXCEPT ![k] = Idle]
                      /\ UNCHANGED nextId
                 [] OTHER ->
                      /\ tasks' = Save(tasks, c.id, c.seen, c.doc)
                      /\ calls' = [calls EXCEPT ![k] = [c EXCEPT !.pc = "refetch"]]
                      /\ UNCHANGED <<nextId, req, resp, events>>
        /\ UNCHANGED <<io, arg, ret>>

(* Task.findById(id).populate(...) after the write, the event and the       *)
(* response: result.task is what the read returned, null when the task is   *)
(* no longer stored, in which case updatedTask.projectId throws.            *)
Refetch ==
    \E k \in 1..MaxCalls :
        /\ calls[k].pc = "refetch"
        /\ LET c == calls[k]
               found == TaskFindById(tasks, c.id)
               ok == Ok(tasks, nextId, c.message, found, <<>>)
               out == IF c.rq.parsed.intent = "create"
                      THEN Publish(tasks, nextId, ok, ProjectTeam(c.rq.projectId),
                                   "task-updated", found, io)
                      ELSE IF found = NoId
                      THEN Fail(tasks, nextId, "Error", "Cannot read properties of null")
                      ELSE Publish(tasks, nextId, ok,
                                   TeamIdOf(PopulatedProject(tasks[found].projectId)),
                                   "task-updated", found, io)
           IN  /\ req' = c.rq
               /\ resp' = out.resp
               /\ events' = out.events
               /\ calls' = [calls EXCEPT ![k] = Idle]
        /\ UNCHANGED <<tasks, nextId, io, arg, ret>>

NextRace ==
    \/ Begin
    \/ Write
    \/ Refetch

SpecRace == Init /\ [][NextRace]_vars

----------------------------------------------------------------------------
(* The parser and the resolver called on their own *)

MaxWords == 3
MaxList == 2

Vocabulary ==
    {<<"c", "r", "e", "a", "t", "e">>, <<"s", "e", "t">>, <<"m", "o", "v", "e">>, <<"a", "s", "s", "i", "g", "n">>, <<"d", "e", "l", "e", "t", "e">>, <<"s", "h", "o", "w">>, <<"h", "e", "l", "p">>,
     <<"t", "a", "s", "k">>, <<"t", "o">>}

RECURSIVE Join(_)
Join(ws) ==
    IF Len(ws) = 1 THEN ws[1] ELSE ws[1] \o <<" ">> \o Join(Tail(ws))

Phrases ==
    {Join(ws) : ws \in UNION {[1..n -> Vocabulary] : n \in 1..MaxWords}}

InitParse ==
    /\ tasks = <<>>
    /\ calls = NoCalls
    /\ nextId = 0
    /\ io = "attached"
    /\ req = NoRequest
    /\ resp = NoResponse
    /\ events = <<>>
    /\ arg \in Phrases
    /\ ret = NoCall

ParseCommand ==
    /\ ret = NoCall
    /\ ret' = <<parseCommand(arg)>>
    /\ UNCHANGED <<tasks, nextId, io, req, resp, events, arg, calls>>

SpecParse == InitParse /\ [][ParseCommand]_vars

InitResolve ==
    LET ListTitles == {<<"F">>, <<"f", "x">>, <<"x">>, <<"l", "o">>}
        Fragments == {Unset, <<"f">>, <<"X">>, <<"f", "x", "l">>, <<"q">>}
        TitleLists == UNION {[1..n -> ListTitles] : n \in 0..MaxList}
    IN
    /\ tasks = <<>>
    /\ calls = NoCalls
    /\ nextId = 0
    /\ io = "attached"
    /\ req = NoRequest
    /\ resp = NoResponse
    /\ events = <<>>
    /\ arg \in [title : Fragments, titles : TitleLists]
    /\ ret = NoCall

(* The tasks argument: documents in list order, numbered by their position. *)
Listed(titles) == [k \in 1..Len(titles) |-> [title |-> titles[k]]]

FindTaskByTitle ==
    /\ ret = NoCall
    /\ ret' = <<findTaskByTitle(Listed(arg.titles), arg.title,
                                [k \in 1..Len(arg.titles) |-> k])>>
    /\ UNCHANGED <<tasks, nextId, io, req, resp, events, arg, calls>>

SpecResolve == InitResolve /\ [][FindTaskByTitle]_vars

----------------------------------------------------------------------------
(* Properties of the assistant *)

Mutating == {"create", "update", "move", "assign", "delete"}

(* The task the request just answered referred to, resolved in the tasks as *)
(* they were when it arrived.                                               *)
Referred(before, rq) ==
    Lookup(before, rq.parsed, Snapshot(before, rq.user, rq.projectId))

SameAssignees(before, after) ==
    /\ DOMAIN after = DOMAIN before
    /\ \A i \in DOMAIN before : after[i].assignedTo = before[i].assignedTo

(* C1: a Delete issued by a manager or a member fails with Forbidden and    *)
(* leaves every stored task as it was, whether the task is named by id or   *)
(* by title and whether or not it exists.                                   *)
C1_NonAdminDeleteForbidden ==
    [][(req'.parsed.intent = "delete" /\ Role(req'.user) # ROLE_ADMIN)
        => (resp'.status = "Forbidden" /\ tasks' = tasks)]_vars

C1_Witness ==
    /\ req.parsed.intent = "delete"
    /\ Role(req.user) = ROLE_MANAGER
    /\ req.parsed.taskId \in DOMAIN tasks
    /\ resp.status = "Forbidden"

(* C2: an Assign issued by a member or an admin fails with Forbidden and    *)
(* changes the assignee of no task, also when the caller is the task's      *)
(* assignee.                                                                *)
C2_NonManagerAssignForbidden ==
    [][(req'.parsed.intent = "assign" /\ Role(req'.user) # ROLE_MANAGER)
        => (resp'.status = "Forbidden" /\ SameAssignees(tasks, tasks'))]_vars

C2_Witness ==
    /\ req.parsed.intent = "assign"
    /\ req.user = "mem1"
    /\ req.parsed.assigneeName # Unset
    /\ req.parsed.taskId \in DOMAIN tasks
    /\ tasks[req.parsed.taskId].assignedTo = "mem1"
    /\ resp.status = "Forbidden"

(* C3: a member's Update of a task assigned to that member changes at most  *)
(* the status of that task, and only to the parsed status, which it has     *)
(* after a successful request that parsed one; the task's title,            *)
(* description, assignee and project and every other task stay.             *)
C3_MemberUpdateOnlyStatus ==
    [][(/\ req'.parsed.intent = "update"
        /\ Role(req'.user) = ROLE_MEMBER
        /\ Referred(tasks, req') # NoId
        /\ tasks[Referred(tasks, req')].assignedTo = req'.user)
        => LET id == Referred(tasks, req')
               st == req'.parsed.status
           IN  /\ DOMAIN tasks' = DOMAIN tasks
               /\ tasks' = [tasks EXCEPT ![id].status = tasks'[id].status]
               /\ tasks'[id].status \in {tasks[id].status, st}
               /\ (resp'.status = "OK" /\ st # NoStatus) => tasks'[id].status = st]_vars

C3_Witness ==
    /\ req.parsed.intent = "update"
    /\ req.user = "mem1"
    /\ req.parsed.title = TitleB
    /\ req.parsed.description = DescD
    /\ req.parsed.status = DONE
    /\ resp.status = "OK"
    /\ resp.task \in DOMAIN tasks
    /\ tasks[resp.task].title = TitleA
    /\ tasks[resp.task].description = Unset
    /\ tasks[resp.task].status = DONE
    /\ tasks[resp.task].assignedTo = "mem1"

(* C4 as stated: a member's Update or Move that resolves to a task of       *)
(* another assignee, or of none, fails with Forbidden and leaves the tasks  *)
(* as they were, whatever fields were parsed.                               *)
C4_ForeignTaskForbidden ==
    [][(/\ req'.parsed.intent \in {"update", "move"}
        /\ Role(req'.user) = ROLE_MEMBER
        /\ Referred(tasks, req') # NoId
        /\ tasks[Referred(tasks, req')].assignedTo # req'.user)
        => (resp'.status = "Forbidden" /\ tasks' = tasks)]_vars

(* C4 amended: such a request leaves the tasks as they were and fails with  *)
(* Forbidden, except a Move that carries no target status, which fails with *)
(* BadRequest.                                                              *)
C4_ForeignTaskRejected ==
    [][(/\ req'.parsed.intent \in {"update", "move"}
        /\ Role(req'.user) = ROLE_MEMBER
        /\ Referred(tasks, req') # NoId
        /\ tasks[Referred(tasks, req')].assignedTo # req'.user)
        => /\ tasks' = tasks
           /\ resp'.status =
                 IF req'.parsed.intent = "move" /\ req'.parsed.status = NoStatus
                 THEN "BadRequest" ELSE "Forbidden"]_vars

C4_Witness ==
    /\ req.parsed.intent = "move"
    /\ req.parsed.status = DONE
    /\ req.user = "mem1"
    /\ req.parsed.taskId \in DOMAIN tasks
    /\ tasks[req.parsed.taskId].assignedTo = NoUser
    /\ tasks[req.parsed.taskId].status = TODO
    /\ resp.status = "Forbidden"

(* C5: a member's Create fails with Forbidden and stores no task, with or   *)
(* without a projectId and whether or not the project exists; a manager's   *)
(* or an admin's Create is never answered Forbidden.                        *)
C5_CreateRoleGate ==
    [][req'.parsed.intent = "create"
        => IF Role(req'.user) = ROLE_MEMBER
           THEN resp'.status = "Forbidden" /\ tasks' = tasks /\ nextId' = nextId
           ELSE resp'.status # "Forbidden"]_vars

C5_Witness ==
    /\ req.parsed.intent = "create"
    /\ req.user = "mem1"
    /\ req.projectId = "P1"
    /\ resp.status = "Forbidden"
    /\ tasks = <<>>

(* C6: a task created on behalf of a caller who is not a manager has no     *)
(* assignee, whatever assignee name the command carried.                    *)
C6_OnlyManagerCreateAssigns ==
    (/\ req.parsed.intent = "create"
     /\ resp.status = "OK"
     /\ Role(req.user) # ROLE_MANAGER)
    => (resp.task \in DOMAIN tasks /\ tasks[resp.task].assignedTo = NoUser)

C6_Witness ==
    /\ req.parsed.intent = "create"
    /\ req.user = "adm"
    /\ req.parsed.assigneeName = <<"s">>
    /\ resp.status = "OK"
    /\ tasks[resp.task].assignedTo = NoUser

(* C7: every assignee a request writes to a task, new or existing, is a     *)
(* user of role member in the team of the caller of that request.           *)
C7_AssigneesAreTeamMembers ==
    [][\A i \in DOMAIN tasks' :
        LET a == tasks'[i].assignedTo
        IN  (a # NoUser /\ (i \notin DOMAIN tasks \/ tasks[i].assignedTo # a))
            => (/\ User[a].role = ROLE_MEMBER
                /\ User[a].teamId = User[req'.user].teamId)]_vars

C7_Witness ==
    /\ req.parsed.intent = "assign"
    /\ req.parsed.assigneeName = <<"s">>
    /\ resp.status = "OK"
    /\ tasks[resp.task].assignedTo = "mem1"

(* C8: a member's List with a project scope and no filter answers exactly   *)
(* the tasks of that project that are assigned to the caller or to nobody.  *)
C8_MemberListOwnAndUnassigned ==
    (/\ req.parsed.intent = "list"
     /\ Role(req.user) = ROLE_MEMBER
     /\ req.projectId # NoProject
     /\ req.parsed.filters = NoFilters)
    => /\ resp.status = "OK"
       /\ resp.hasTasks
       /\ {resp.tasks[k] : k \in 1..Len(resp.tasks)}
            = {i \in DOMAIN tasks : /\ tasks[i].projectId = req.projectId
                                    /\ tasks[i].assignedTo \in {req.user, NoUser}}

(* C9: a request that does not answer success leaves the stored tasks as    *)
(* they were.                                                               *)
C9_FailureLeavesTasks ==
    [][(req' # NoRequest /\ resp'.status # "OK") => tasks' = tasks]_vars

(* C10: with a channel attached, a successful Create, Update, Move or       *)
(* Assign publishes one task-updated event, and a successful Delete one     *)
(* task-deleted event, to the team that owns the task's project.            *)
C10_MutationPublishesOnce ==
    [][(/\ req'.parsed.intent \in Mutating
        /\ io' = "attached"
        /\ resp'.status = "OK")
        => LET deleted == req'.parsed.intent = "delete"
               id == IF deleted THEN Referred(tasks, req') ELSE resp'.task
               pid == IF deleted THEN tasks[id].projectId ELSE tasks'[id].projectId
           IN  events' = <<[topic |-> Project[pid].teamId,
                            event |-> IF deleted THEN "task-deleted"
                                                 ELSE "task-updated",
                            taskId |-> id]>>]_vars

(* C11 as stated: for every Create, Update, Move, Assign and Delete the     *)
(* response and the stored tasks are what the same request gives without a  *)
(* channel, whether the channel is absent, delivers or throws.              *)
C11_ChannelNeverChangesOutcome ==
    [][req'.parsed.intent \in Mutating
        => LET o == handleAssistant(tasks, nextId, req',
                        switchIntent(tasks, nextId, req'.user, req'.projectId,
                                     req'.parsed, "absent", "none"))
           IN  resp' = o.resp /\ tasks' = o.tasks]_vars

(* C12: parseCommand answers the intent of the first row, in the order      *)
(* Create, Update, Move, Assign, Delete, List, Help, Unknown, whose action   *)
(* keywords and whose object keywords each have one occurring in the         *)
(* lower-cased trimmed command (Help has action keywords only, Unknown       *)
(* matches everything; a Create may come back as the error variant).         *)
KeywordRows ==
    <<[tags |-> {"create", "error"}, actions |-> CreateActions, objects |-> TaskObject],
      [tags |-> {"update"}, actions |-> UpdateActions, objects |-> TaskObject],
      [tags |-> {"move"}, actions |-> MoveActions, objects |-> MoveObjects],
      [tags |-> {"assign"}, actions |-> AssignActions, objects |-> AssignObjects],
      [tags |-> {"delete"}, actions |-> DeleteActions, objects |-> TaskObject],
      [tags |-> {"list"}, actions |-> ListActions, objects |-> ListObjects],
      [tags |-> {"help"}, actions |-> HelpActions, objects |-> {<<>>}],
      [tags |-> {"unknown"}, actions |-> {<<>>}, objects |-> {<<>>}]>>

RowMatches(k, command) ==
    LET text == Trim(ToLowerCase(command))
    IN  /\ \E w \in KeywordRows[k].actions : Includes(text, w)
        /\ \E w \in KeywordRows[k].objects : Includes(text, w)

C13_CreateLoginBugUnassigned ==
    [][(/\ req' # NoRequest
        /\ req'.command = CreateLoginBug
        /\ Role(req'.user) = ROLE_MANAGER
        /\ req'.projectId \in DOMAIN Project)
        => /\ resp'.status = "OK"
           /\ resp'.message \in {"Task created successfully!",
                                 "Warning: Could not find user. Task created successfully!"}
           /\ nextId' = nextId + 1
           /\ tasks' = tasks @@ (nextId' :>
                        [title |-> <<"f", "i", "x", " ", "t", "h", "e", " ", "l", "o", "g", "i", "n", " ", "b", "u", "g">>, description |-> Unset,
                         status |-> TODO, projectId |-> req'.projectId,
                         assignedTo |-> NoUser])]_vars

(* C14 as stated: "move task 'Fix login' to done" from the member the task  *)
(* titled "Fix login" is assigned to, with the task's project as scope,     *)
(* succeeds and sets that task's status to done, nothing else changing.     *)
C14_MoveFixLoginToDone ==
    [][(/\ req' # NoRequest
        /\ req'.command = MoveFixLogin
        /\ Role(req'.user) = ROLE_MEMBER)
        => \A i \in DOMAIN tasks :
            (/\ tasks[i].title = FixLogin
             /\ tasks[i].assignedTo = req'.user
             /\ tasks[i].projectId = req'.projectId)
            => /\ resp'.status = "OK"
               /\ tasks' = [tasks EXCEPT ![i].status = DONE]]_vars

(* C15: "help" answers success with the one guidance message, neither task  *)
(* nor tasks, and the stored tasks stay, whoever asks and with or without a *)
(* projectId.                                                               *)
C15_HelpIsStatic ==
    [][(req' # NoRequest /\ req'.command = HelpCommand)
        => /\ resp' = Resp("OK", "I can help you manage tasks!", NoId, FALSE, <<>>)
           /\ tasks' = tasks]_vars

C15_Witness ==
    /\ req # NoRequest
    /\ req.command = HelpCommand
    /\ req.user = "mem1"
    /\ req.projectId = "P1"
    /\ \E i \in DOMAIN tasks : tasks[i].projectId = "P1" /\ tasks[i].assignedTo = "mem1"
    /\ resp.status = "OK"
    /\ resp.task = NoId
    /\ ~resp.hasTasks

(* C16 as stated: "create task", a Create without a title, parses to the    *)
(* error variant and the request fails with BadRequest, no task created.    *)
C16_TitlelessCreateIsBadRequest ==
    [][(req' # NoRequest /\ req'.command = CreateNoTitle)
        => /\ req'.parsed.intent = "error"
           /\ resp'.status = "BadRequest"
           /\ tasks' = tasks]_vars

(* C17 as stated: a Create, Update, Move, Assign or Delete the caller's role *)
(* admits, whose task reference or assignee name resolves to nothing, fails *)
(* with NotFound and leaves the tasks as they were.                         *)
RoleAdmits(rq) ==
    CASE rq.parsed.intent = "create" -> Role(rq.user) # ROLE_MEMBER
      [] rq.parsed.intent = "assign" -> Role(rq.user) = ROLE_MANAGER
      [] rq.parsed.intent = "delete" -> Role(rq.user) = ROLE_ADMIN
      [] OTHER -> TRUE

C17_UnresolvedIsNotFound ==
    [][(/\ req'.parsed.intent \in Mutating
        /\ RoleAdmits(req')
        /\ \/ /\ req'.parsed.intent # "create"
              /\ req'.parsed.taskId # NoId \/ req'.parsed.taskTitle # Unset
              /\ Referred(tasks, req') = NoId
           \/ /\ req'.parsed.intent = "assign"
              /\ req'.parsed.assigneeName # Unset
              /\ findUserByName(req'.user, req'.parsed.assigneeName) = NoUser
           \/ /\ req'.parsed.intent = "create"
              /\ req'.projectId \in DOMAIN Project
              /\ req'.parsed.assigneeName # Unset
              /\ findUserByName(req'.user, req'.parsed.assigneeName) = NoUser)
        => (resp'.status = "NotFound" /\ tasks' = tasks)]_vars

(* C18 as stated: a Move without a target status, an Assign without an      *)
(* assignee name and a Create without a projectId, from a caller whose role *)
(* admits the intent, fail with BadRequest whatever tasks are stored.       *)
C18_MissingFieldIsBadRequest ==
    [][(/\ RoleAdmits(req')
        /\ \/ req'.parsed.intent = "move" /\ req'.parsed.status = NoStatus
           \/ req'.parsed.intent = "assign" /\ req'.parsed.assigneeName = Unset
           \/ req'.parsed.intent = "create" /\ req'.projectId = NoProject)
        => (resp'.status = "BadRequest" /\ tasks' = tasks)]_vars

(* C19: findTaskByTitle answers the first task of the list whose lower-cased *)
(* title contains the lower-cased fragment or is contained in it, and none  *)
(* for an unset fragment, an empty list or a list without such a task.      *)
C19_FirstTitleMatch ==
    LET TitleHit(fragment, title) ==
        \/ Includes(ToLowerCase(title), ToLowerCase(fragment))
        \/ Includes(ToLowerCase(fragment), ToLowerCase(title))
    IN
    ret # NoCall
    => LET hits == {k \in 1..Len(arg.titles) : TitleHit(arg.title, arg.titles[k])}
       IN  IF arg.title = Unset \/ hits = {}
           THEN ret[1] = NoId
           ELSE ret[1] \in hits /\ \A k \in hits : ret[1] <= k

C19_Witness ==
    /\ ret = <<2>>
    /\ arg.title = <<"f", "x", "l">>
    /\ arg.titles = <<<<"l", "o">>, <<"f", "x">>>>

(* C20 as stated: the status of a parsed Create, Update or Move is unset or *)
(* one of todo, in-progress, done.                                          *)
C20_ParsedStatusInVocabulary ==
    req.parsed.intent \in {"create", "update", "move"}
    => req.parsed.status \in {NoStatus, TODO, IN_PROGRESS, DONE}

(* C22 as stated: a task that an assistant request creates, changes or      *)
(* deletes belongs to a project of the caller's own team.                   *)
C22_OnlyOwnTeamTasks ==
    [][req' # NoRequest
        => \A i \in DOMAIN tasks \cup DOMAIN tasks' :
              (\/ i \notin DOMAIN tasks
               \/ i \notin DOMAIN tasks'
               \/ tasks'[i] # tasks[i])
              => LET doc == IF i \in DOMAIN tasks' THEN tasks'[i] ELSE tasks[i]
                 IN  ProjectTeam(doc.projectId) = User[req'.user].teamId]_vars

(* C24 as stated: an Assign by a caller who is no manager, a Delete by one  *)
(* who is no admin, and a member's Update or Move, each naming by id a task *)
(* assigned to another user, are answered as they are when no task has the  *)
(* id.                                                                      *)
C24_ForbiddenHidesExistence ==
    [][(/\ req'.parsed.taskId \in DOMAIN tasks
        /\ tasks[req'.parsed.taskId].assignedTo \notin {NoUser, req'.user}
        /\ \/ req'.parsed.intent = "assign" /\ Role(req'.user) # ROLE_MANAGER
           \/ req'.parsed.intent = "delete" /\ Role(req'.user) # ROLE_ADMIN
           \/ req'.parsed.intent \in {"update", "move"} /\ Role(req'.user) = ROLE_MEMBER)
        => LET without == [i \in DOMAIN tasks \ {req'.parsed.taskId} |-> tasks[i]]
               o == handleAssistant(without, nextId, req',
                        switchIntent(without, nextId, req'.user, req'.projectId,
                                     req'.parsed, io, "none"))
           IN  resp' = o.resp]_vars

(* C25 as stated: without a projectId an Update, Move, Assign or Delete     *)
(* that names its task by title fails with NotFound and leaves the tasks as *)
(* they were, and a List answers the empty list, for every role.            *)
C25_NoProjectNotFound ==
    [][(req' # NoRequest /\ ~req'.empty /\ req'.projectId = NoProject)
        => /\ (/\ req'.parsed.intent \in {"update", "move", "assign", "delete"}
               /\ req'.parsed.taskId = NoId
               /\ req'.parsed.taskTitle # Unset)
              => (resp'.status = "NotFound" /\ tasks' = tasks)
           /\ req'.parsed.intent = "list"
              => (resp'.status = "OK" /\ resp'.hasTasks /\ resp'.tasks = <<>>)]_vars

(* C25 amended: such a request fails and leaves the tasks as they were,     *)
(* with NotFound when the caller's role admits the intent and with          *)
(* Forbidden when it does not (an Assign by an admin or a member, a Delete  *)
(* by a manager or a member); a List answers the empty list.                *)
C25_NoProjectFails ==
    [][(req' # NoRequest /\ ~req'.empty /\ req'.projectId = NoProject)
        => /\ (/\ req'.parsed.intent \in {"update", "move", "assign", "delete"}
               /\ req'.parsed.taskId = NoId
               /\ req'.parsed.taskTitle # Unset)
              => /\ tasks' = tasks
                 /\ resp'.status = IF RoleAdmits(req') THEN "NotFound" ELSE "Forbidden"
           /\ req'.parsed.intent = "list"
              => (resp'.status = "OK" /\ resp'.hasTasks /\ resp'.tasks = <<>>)]_vars

C25_Witness ==
    /\ req.projectId = NoProject
    /\ req.parsed.intent = "move"
    /\ req.parsed.status = DONE
    /\ req.user = "mgr"
    /\ req.parsed.taskId = NoId
    /\ req.parsed.taskTitle = TitleA
    /\ \E i \in DOMAIN tasks : tasks[i].title = TitleA /\ tasks[i].projectId = "P1"
    /\ resp.status = "NotFound"

(* C21 as stated: a request answered with success has task set and tasks    *)
(* unset when it is a Create, Update, Move or Assign, tasks set and task    *)
(* unset when it is a List, and neither set when it is a Delete, Help or    *)
(* Unknown; never both.                                                     *)
C21_EnvelopeByIntent ==
    (req # NoRequest /\ resp.status = "OK")
        => /\ ~(resp.task # NoId /\ resp.hasTasks)
           /\ req.parsed.intent \in {"create", "update", "move", "assign"}
                => (resp.task # NoId /\ ~resp.hasTasks)
           /\ req.parsed.intent = "list" => (resp.hasTasks /\ resp.task = NoId)
           /\ req.parsed.intent \in {"delete", "help", "unknown"}
                => (resp.task = NoId /\ ~resp.hasTasks)

(* C23 as stated: when a member's Update or Move writes to a task, the task *)
(* is assigned to that member as it is stored at the moment of the write.   *)
C23_AssignedAtTheWrite ==
    [][\A k \in 1..MaxCalls :
          (/\ calls[k].pc = "write"
           /\ calls'[k].pc = "refetch"
           /\ calls[k].rq.parsed.intent \in {"update", "move"}
           /\ Role(calls[k].rq.user) = ROLE_MEMBER
           /\ tasks' # tasks)
          => tasks[calls[k].id].assignedTo = calls[k].rq.user]_vars

(* C23 amended: when a member's Update or Move writes to a task, the task   *)
(* was assigned to that member when the request read it, and the write      *)
(* changes the status of the stored task and nothing else of it.            *)
C23_AssignedAtTheRead ==
    [][\A k \in 1..MaxCalls :
          (/\ calls[k].pc = "write"
           /\ calls'[k].pc = "refetch"
           /\ calls[k].rq.parsed.intent \in {"update", "move"}
           /\ Role(calls[k].rq.user) = ROLE_MEMBER
           /\ tasks' # tasks)
          => /\ calls[k].seen.assignedTo = calls[k].rq.user
             /\ tasks' = [tasks EXCEPT ![calls[k].id].status =
                                            calls[k].rq.parsed.status]]_vars

C23_Witness ==
    /\ req.parsed.intent = "move"
    /\ req.user = "mem1"
    /\ resp.status = "OK"
    /\ resp.task \in DOMAIN tasks
    /\ tasks[resp.task].status = DONE
    /\ tasks[resp.task].assignedTo = "mem2"

====
